---- MODULE Spec2Model ----
(***************************************************************************)
(* The connection lifecycle of the signaling relay:                        *)
(* internal/signaling/handler.go (Handler), with the Peer, the Timeout     *)
(* Manager, the Store and the util helpers it calls.                       *)
(*                                                                         *)
(* One handler goroutine per HTTP request, one keepalive goroutine per     *)
(* accepted connection, one background sweep.  Timers (the connection      *)
(* lifetime, the keepalive ticker, the grace window) are abstracted to     *)
(* occurrences that may happen at any moment.                               *)
(***************************************************************************)
EXTENDS Integers, Sequences, FiniteSets, TLC

\* ---------------------------------------------------------------- bounds
NumConns == 2
MaxMissed == 1

Conns == 1..NumConns
\* Every connection is issued at most one fresh ID, creates at most one lobby.
IDs == 1..NumConns
Codes == 1..NumConns
NoID == 0
NoLobby == 0
\* A pending-disconnect record is keyed by the peer ID it was written with.
RecordIDs == 0..NumConns
NoRecord == [lobby |-> NoLobby, present |-> FALSE, expired |-> FALSE]

VARIABLES
    pc,                   \* position of the handler goroutine of each request
    ctxDone,              \* ctx (line 34) is canceled or past MaxConnectionTime
    connOpen,             \* the upgraded transport is open
    wg,                   \* counter of the returned sync.WaitGroup
    ka,                   \* position of the keepalive goroutine
    missed,               \* pings sent since the last pong was read
    proc,                 \* frames being processed: set of tasks
    writing,              \* writes in flight on each transport
    peerID,               \* Peer.ID
    peerLobby,            \* Peer.Lobby
    closedPacketReceived, \* Peer.closedPacketReceived
    members,              \* Store: member set of each lobby code
    timeouts,             \* Store: pending-disconnect record of each peer ID
    nextID,               \* next fresh peer ID
    discCalls,            \* invocations of TimeoutManager.Disconnected per connection
    discCtx               \* state of the context handed to Disconnected

vars == <<pc, ctxDone, connOpen, wg, ka, missed, proc, writing,
          peerID, peerLobby, closedPacketReceived, members, timeouts, nextID,
          discCalls, discCtx>>

connVars == <<pc, ctxDone, connOpen, wg, ka, missed, proc, writing>>
peerVars == <<peerID, peerLobby, closedPacketReceived>>
storeVars == <<members, timeouts, nextID>>
histVars == <<discCalls, discCtx>>

Init ==
    /\ pc = [c \in Conns |-> "idle"]
    /\ ctxDone = [c \in Conns |-> FALSE]
    /\ connOpen = [c \in Conns |-> FALSE]
    /\ wg = 0
    /\ ka = [c \in Conns |-> "off"]
    /\ missed = [c \in Conns |-> 0]
    /\ proc = [c \in Conns |-> {}]
    /\ writing = [c \in Conns |-> {}]
    /\ peerID = [c \in Conns |-> NoID]
    /\ peerLobby = [c \in Conns |-> NoLobby]
    /\ closedPacketReceived = [c \in Conns |-> FALSE]
    /\ members = [l \in Codes |-> {}]
    /\ timeouts = [i \in RecordIDs |-> NoRecord]
    /\ nextID = 1
    /\ discCalls = [c \in Conns |-> 0]
    /\ discCtx = [c \in Conns |-> "none"]

\* ------------------------------------------------------------ the frames
\* What a client may put on the wire.  "garbage" is not a JSON object; an
\* "event" carries parameters that decode (arg 1) or do not (arg 0); "hello"
\* claims a prior ID (arg) or none (NoID); "bad" is a packet the Peer rejects.
Frames ==
    [kind : {"garbage", "credentials", "pong", "close", "create", "bad"}, arg : {0}]
        \cup [kind : {"event"}, arg : {0, 1}]
        \cup [kind : {"hello"}, arg : 0..NumConns]
        \cup [kind : {"join"}, arg : Codes]
        \cup [kind : {"relay"}, arg : IDs]

\* The processing of a frame that is under way: a write of some kind to
\* transport `to`, waiting for the write path ("lock") or in flight ("write").
\* The reply to an identity claim says which ID was claimed and what record
\* the claim met ("pending", "expired" or "none").
Task(kind, to) ==
    [kind |-> kind, stage |-> "lock", to |-> to, claimed |-> NoID, met |-> "none"]

\* The error envelope of a not-found condition.
NotFound(to) ==
    [kind |-> "error", stage |-> "lock", to |-> to, claimed |-> NoID, met |-> "notfound"]

Welcome(to, claimed, met) ==
    [kind |-> "welcome", stage |-> "lock", to |-> to, claimed |-> claimed, met |-> met]

\* ------------------------------------------------------- util (aborting)
\* util.ErrorAndDisconnect: close the transport and abort the handler; the
\* deferred teardown runs next.
ErrorAndDisconnect(c) ==
    /\ connOpen' = [connOpen EXCEPT ![c] = FALSE]
    /\ pc' = [pc EXCEPT ![c] = "closing"]
    /\ proc' = [proc EXCEPT ![c] = {}]

\* ------------------------------------------------------------ the Store
Live(l) == members[l] # {}

FreeCodes == {l \in Codes : ~Live(l)}

\* An allocation that takes the code it drew, live or not.
AllocateNoRetry(l) == l

\* Allocation of a lobby code: a drawn code that collides with a live lobby
\* is given up and the next one is drawn.
RECURSIVE Allocate(_)
Allocate(l) == IF Live(l) THEN Allocate(l + 1) ELSE l

\* A lobby code no live lobby has: the draws start with the first code.
NewCode == Allocate(CHOOSE l \in Codes : \A x \in Codes : l <= x)

Leave(m, i, l) == IF l = NoLobby THEN m ELSE [m EXCEPT ![l] = @ \ {i}]

\* ---------------------------------------------------- Timeout Manager
\* Reconnected(peerID): a matching pending-disconnect record exists.
Reconnected(i) == timeouts[i].present

\* Disconnected(ctx, peer): record (peer ID, lobby ID, timestamp); the lobby's
\* member set is left alone.  A Store call under a dead context fails.
Disconnected(ctxLive, c) ==
    /\ discCalls' = [discCalls EXCEPT ![c] = @ + 1]
    /\ discCtx' = [discCtx EXCEPT ![c] = IF ctxLive THEN "live" ELSE "dead"]
    /\ timeouts' = IF ctxLive
                   THEN [timeouts EXCEPT ![peerID[c]] =
                            [lobby |-> peerLobby[c], present |-> TRUE, expired |-> FALSE]]
                   ELSE timeouts

\* The grace window of a record elapses.
GraceElapse(i) ==
    /\ timeouts[i].present
    /\ ~timeouts[i].expired
    /\ timeouts' = [timeouts EXCEPT ![i].expired = TRUE]
    /\ UNCHANGED <<connVars, peerVars, members, nextID, histVars>>

\* A sweep that evicts the peer and leaves the record where it is.
SweepKeepsRecord(i) ==
    /\ timeouts[i].present
    /\ timeouts[i].expired
    /\ members' = Leave(members, i, timeouts[i].lobby)
    /\ UNCHANGED <<connVars, peerVars, timeouts, nextID, histVars>>

\* One record of the periodic sweep of Run: a record older than the grace
\* window is deleted and its peer removed from its lobby.
Sweep(i) ==
    /\ timeouts[i].present
    /\ timeouts[i].expired
    /\ timeouts' = [timeouts EXCEPT ![i] = NoRecord]
    /\ members' = Leave(members, i, timeouts[i].lobby)
    /\ UNCHANGED <<connVars, peerVars, nextID, histVars>>

\* --------------------------------------------------------- the handler
\* Lines 29-51: the request arrives (requests are numbered in arrival order),
\* the lifetime context is created, the transport is upgraded or the request
\* is rejected (util.ErrorAndAbort).
Request(c) ==
    /\ pc[c] = "idle"
    /\ \A b \in Conns : b < c => pc[b] # "idle"
    /\ \E ok \in BOOLEAN :
          /\ pc' = [pc EXCEPT ![c] = IF ok THEN "accepted" ELSE "rejected"]
          /\ connOpen' = [connOpen EXCEPT ![c] = ok]
    /\ UNCHANGED <<ctxDone, wg, ka, missed, proc, writing,
                   peerVars, storeVars, histVars>>

\* Lines 34-35: the context is done; a keepalive goroutine waiting in its
\* select returns (lines 83-84).
Cancel(c) ==
    /\ ctxDone' = [ctxDone EXCEPT ![c] = TRUE]
    /\ ka' = [ka EXCEPT ![c] = IF @ = "wait" THEN "off" ELSE @]
    /\ missed' = [missed EXCEPT ![c] = IF ka[c] = "wait" THEN 0 ELSE @]

\* A context without a deadline: it never expires on its own.
LifetimeNeverExpires(c) ==
    /\ FALSE
    /\ UNCHANGED vars

\* The lifetime context passes MaxConnectionTime (line 34).
LifetimeExpire(c) ==
    /\ pc[c] \notin {"idle", "rejected", "done"}
    /\ ~ctxDone[c]
    /\ Cancel(c)
    /\ UNCHANGED <<pc, connOpen, wg, proc, writing, peerVars, storeVars, histVars>>

\* The handler starts without registering with the WaitGroup.
StartWithoutAdd(c) ==
    /\ pc[c] = "accepted"
    /\ ka' = [ka EXCEPT ![c] = IF ctxDone[c] THEN "off" ELSE "wait"]
    /\ pc' = [pc EXCEPT ![c] = "loop"]
    /\ UNCHANGED <<ctxDone, connOpen, wg, missed, proc, writing,
                   peerVars, storeVars, histVars>>

\* A handler that goes on after the upgrade failed.
StartAfterReject(c) ==
    /\ pc[c] \in {"accepted", "rejected"}
    /\ wg' = wg + 1
    /\ ka' = [ka EXCEPT ![c] = IF ctxDone[c] THEN "off" ELSE "wait"]
    /\ pc' = [pc EXCEPT ![c] = "loop"]
    /\ UNCHANGED <<ctxDone, connOpen, missed, proc, writing,
                   peerVars, storeVars, histVars>>

\* Lines 53-87: wg.Add(1), the Peer, the deferred teardown, the keepalive
\* goroutine.
Start(c) ==
    /\ pc[c] = "accepted"
    /\ wg' = wg + 1
    /\ ka' = [ka EXCEPT ![c] = IF ctxDone[c] THEN "off" ELSE "wait"]
    /\ pc' = [pc EXCEPT ![c] = "loop"]
    /\ UNCHANGED <<ctxDone, connOpen, missed, proc, writing,
                   peerVars, storeVars, histVars>>

\* A read loop that takes the next frame while one is being handled.
AwaitNothing(c) == TRUE

\* The read loop handles a frame to its end before it takes the next.
Await(c) == proc[c] = {}

\* Line 89: the loop condition finds the context done and the loop ends.
LoopExit(c) ==
    /\ pc[c] = "loop"
    /\ Await(c)
    /\ ctxDone[c]
    /\ pc' = [pc EXCEPT ![c] = "closing"]
    /\ UNCHANGED <<ctxDone, connOpen, wg, ka, missed, proc, writing,
                   peerVars, storeVars, histVars>>

\* conn.Read(ctx) gives up once its context is done.
ReadCtxDone(c) == ctxDone[c]

\* Lines 91-93: the read fails because the context is done.
ReadTimeout(c) ==
    /\ pc[c] = "loop"
    /\ Await(c)
    /\ ReadCtxDone(c)
    /\ ErrorAndDisconnect(c)
    /\ UNCHANGED <<ctxDone, wg, ka, missed, writing,
                   peerVars, storeVars, histVars>>

\* Lines 91-93: the read fails because the client or the network went away.
ReadError(c) ==
    /\ pc[c] = "loop"
    /\ Await(c)
    /\ ~ctxDone[c]
    /\ ErrorAndDisconnect(c)
    /\ UNCHANGED <<ctxDone, wg, ka, missed, writing,
                   peerVars, storeVars, histVars>>

\* The frame is handled; the loop goes on to its next iteration.
Continue(c) ==
    /\ pc' = [pc EXCEPT ![c] = "loop"]
    /\ UNCHANGED <<connOpen, proc, writing>>

\* The frame cannot be handled: util.ErrorAndDisconnect.
Abort(c) ==
    /\ ErrorAndDisconnect(c)
    /\ UNCHANGED writing

\* A write path that admits every writer at once.
WriteLockAlwaysFree(d) == TRUE

\* The transport's write path admits one writer at a time.
WriteLockFree(d) == writing[d] = {}

\* Handling the frame takes a write on transport t.to: the handler enters the
\* write path when it is free and waits for it when it is not.
Begin(c, t) ==
    /\ pc' = [pc EXCEPT ![c] = "loop"]
    /\ IF WriteLockFree(t.to)
       THEN /\ writing' = [writing EXCEPT ![t.to] = @ \cup {<<c, t.kind>>}]
            /\ proc' = [proc EXCEPT ![c] = @ \cup {[t EXCEPT !.stage = "write"]}]
       ELSE /\ proc' = [proc EXCEPT ![c] = @ \cup {t}]
            /\ UNCHANGED writing
    /\ UNCHANGED connOpen

\* Handling the frame ends with the go statement of line 125.
BeginEvent(c) ==
    /\ pc' = [pc EXCEPT ![c] = "loop"]
    /\ proc' = [proc EXCEPT ![c] = @ \cup {[Task("event", c) EXCEPT !.stage = "go"]}]
    /\ UNCHANGED <<connOpen, writing>>

\* ------------------------------------------------------------ the Peer
\* The live connection of the relay target, when it is a member of the
\* sender's lobby.
RelayTargets(c, i) ==
    {d \in Conns \ {c} : /\ connOpen[d]
                         /\ peerID[d] = i
                         /\ peerLobby[c] # NoLobby
                         /\ i \in members[peerLobby[c]]}

\* Identity claim: the prior ID is restored when Reconnected confirms it,
\* else a fresh ID is issued.
HandleHello(c, claimed) ==
    IF peerID[c] # NoID
    THEN /\ Abort(c)
         /\ UNCHANGED <<peerVars, storeVars>>
    ELSE IF claimed # NoID /\ Reconnected(claimed)
    THEN /\ peerID' = [peerID EXCEPT ![c] = claimed]
         /\ peerLobby' = [peerLobby EXCEPT ![c] = timeouts[claimed].lobby]
         /\ timeouts' = [timeouts EXCEPT ![claimed] = NoRecord]
         /\ Begin(c, Welcome(c, claimed,
                             IF timeouts[claimed].expired THEN "expired" ELSE "pending"))
         /\ UNCHANGED <<closedPacketReceived, members, nextID>>
    ELSE /\ peerID' = [peerID EXCEPT ![c] = nextID]
         /\ nextID' = nextID + 1
         /\ Begin(c, Welcome(c, claimed, "none"))
         /\ UNCHANGED <<peerLobby, closedPacketReceived, members, timeouts>>

HandleCreate(c) ==
    IF peerLobby[c] # NoLobby
    THEN /\ Begin(c, Task("error", c))
         /\ UNCHANGED <<peerVars, storeVars>>
    ELSE /\ \E l \in {NewCode} :
              /\ members' = [members EXCEPT ![l] = {peerID[c]}]
              /\ peerLobby' = [peerLobby EXCEPT ![c] = l]
         /\ Begin(c, Task("reply", c))
         /\ UNCHANGED <<peerID, closedPacketReceived, timeouts, nextID>>

HandleJoin(c, l) ==
    IF peerLobby[c] # NoLobby \/ ~Live(l)
    THEN /\ Begin(c, Task("error", c))
         /\ UNCHANGED <<peerVars, storeVars>>
    ELSE /\ members' = [members EXCEPT ![l] = @ \cup {peerID[c]}]
         /\ peerLobby' = [peerLobby EXCEPT ![c] = l]
         /\ Begin(c, Task("reply", c))
         /\ UNCHANGED <<peerID, closedPacketReceived, timeouts, nextID>>

\* A relay whose target is unknown or outside the lobby ends the connection.
HandleRelayFatal(c, i) ==
    /\ IF RelayTargets(c, i) # {}
       THEN \E d \in RelayTargets(c, i) : Begin(c, Task("relay", d))
       ELSE Abort(c)
    /\ UNCHANGED <<peerVars, storeVars>>

\* The envelope is forwarded to the target, if it is a member of the sender's
\* lobby; else a not-found error goes back to the sender.
HandleRelay(c, i) ==
    /\ IF RelayTargets(c, i) # {}
       THEN \E d \in RelayTargets(c, i) : Begin(c, Task("relay", d))
       ELSE Begin(c, NotFound(c))
    /\ UNCHANGED <<peerVars, storeVars>>

\* A graceful close: the flag is set and the peer leaves its lobby.
HandleClose(c) ==
    /\ closedPacketReceived' = [closedPacketReceived EXCEPT ![c] = TRUE]
    /\ members' = Leave(members, peerID[c], peerLobby[c])
    /\ Continue(c)
    /\ UNCHANGED <<peerID, peerLobby, timeouts, nextID>>

\* Peer.HandlePacket(ctx, type, raw).
HandlePacket(c, f) ==
    CASE f.kind = "hello" -> HandleHello(c, f.arg)
      [] f.kind = "close" -> HandleClose(c)
      [] f.kind = "bad" \/ peerID[c] = NoID ->
            /\ Abort(c)
            /\ UNCHANGED <<peerVars, storeVars>>
      [] f.kind = "create" -> HandleCreate(c)
      [] f.kind = "join" -> HandleJoin(c, f.arg)
      [] OTHER -> HandleRelay(c, f.arg)

\* -------------------------------------------------------- the read loop
\* A read loop without the check of the close flag.
DroppedNever(c) == FALSE

\* Lines 100-103: frames after a graceful close are dropped.
Dropped(c) == closedPacketReceived[c]

\* A switch without the "pong" case: the frame goes to the Peer, which
\* rejects the type.
HandlePongAsPacket(c) ==
    /\ Abort(c)
    /\ UNCHANGED <<missed, peerVars, storeVars>>

\* Lines 127-128: a pong is consumed; nothing else is done with it.
HandlePong(c) ==
    /\ Continue(c)
    /\ missed' = [missed EXCEPT ![c] = 0]
    /\ UNCHANGED <<peerVars, storeVars>>

\* A handler for which a failure of the Credential Provider is fatal.
HandleCredentialsFatal(c) ==
    /\ \E ok \in BOOLEAN :
          IF ok THEN Begin(c, Task("credentials", c)) ELSE Abort(c)
    /\ UNCHANGED <<missed, peerVars, storeVars>>

\* Lines 106-118: cloudflare.GetCredentials succeeds and the credentials are
\* sent, or it fails and the error is reported with util.ReplyError.
HandleCredentials(c) ==
    /\ \E ok \in BOOLEAN :
          Begin(c, Task(IF ok THEN "credentials" ELSE "error", c))
    /\ UNCHANGED <<missed, peerVars, storeVars>>

\* Lines 105-134: dispatch by type.
Switch(c, f) ==
    CASE f.kind = "credentials" -> HandleCredentials(c)
      [] f.kind = "event" ->
            /\ IF f.arg = 0
               THEN Abort(c)
               ELSE BeginEvent(c)
            /\ UNCHANGED <<missed, peerVars, storeVars>>
      [] f.kind = "pong" -> HandlePong(c)
      [] OTHER ->
            /\ HandlePacket(c, f)
            /\ UNCHANGED missed

\* Lines 90-134: one frame is read and handled.
ReadFrame(c) ==
    /\ pc[c] = "loop"
    /\ Await(c)
    /\ ~ctxDone[c]
    /\ connOpen[c]
    /\ \E f \in Frames :
          /\ f.kind = "hello" => f.arg < nextID
          /\ IF f.kind = "garbage"
             THEN /\ Abort(c)
                  /\ UNCHANGED <<missed, peerVars, storeVars>>
             ELSE IF Dropped(c)
             THEN /\ Continue(c)
                  /\ UNCHANGED <<missed, peerVars, storeVars>>
             ELSE Switch(c, f)
    /\ UNCHANGED <<ctxDone, wg, ka, histVars>>

\* ----------------------------------------------------------- the writes
\* A write on transport d under handler c's context fails at once when the
\* context is done or the transport is closed.
WriteFails(c, d) == ctxDone[c] \/ ~connOpen[d]

\* A write of the handler ended: peer.Send (lines 115-117) and the Peer's
\* replies abort the handler when they fail, util.ReplyError (line 109) does
\* not, a relay that cannot be delivered is reported to the sender.
Finish(c, t, ok) ==
    IF ok \/ t.kind = "error"
    THEN /\ proc' = [proc EXCEPT ![c] = @ \ {t}]
         /\ UNCHANGED <<pc, connOpen>>
    ELSE IF t.kind = "relay"
    THEN /\ proc' = [proc EXCEPT ![c] = (@ \ {t}) \cup {Task("error", c)}]
         /\ UNCHANGED <<pc, connOpen>>
    ELSE ErrorAndDisconnect(c)

TaskLock(c) ==
    /\ \E t \in proc[c] :
          /\ t.stage = "lock"
          /\ ~WriteFails(c, t.to)
          /\ WriteLockFree(t.to)
          /\ writing' = [writing EXCEPT ![t.to] = @ \cup {<<c, t.kind>>}]
          /\ proc' = [proc EXCEPT ![c] = (@ \ {t}) \cup {[t EXCEPT !.stage = "write"]}]
    /\ UNCHANGED <<pc, ctxDone, connOpen, wg, ka, missed,
                   peerVars, storeVars, histVars>>

TaskFail(c) ==
    /\ \E t \in proc[c] :
          /\ t.stage = "lock"
          /\ WriteFails(c, t.to)
          /\ Finish(c, t, FALSE)
    /\ UNCHANGED <<ctxDone, wg, ka, missed, writing,
                   peerVars, storeVars, histVars>>

TaskWritten(c) ==
    /\ \E t \in proc[c] :
          /\ t.stage = "write"
          /\ writing' = [writing EXCEPT ![t.to] = @ \ {<<c, t.kind>>}]
          /\ \E ok \in BOOLEAN :
                /\ ok => connOpen[t.to]
                /\ Finish(c, t, ok)
    /\ UNCHANGED <<ctxDone, wg, ka, missed,
                   peerVars, storeVars, histVars>>

\* Line 125: the event is handed to a goroutine running metrics.RecordEvent.
EventHandOff(c) ==
    /\ \E t \in proc[c] :
          /\ t.stage = "go"
          /\ proc' = [proc EXCEPT ![c] = @ \ {t}]
    /\ UNCHANGED <<pc, ctxDone, connOpen, wg, ka, missed, writing,
                   peerVars, storeVars, histVars>>

\* -------------------------------------------------------- the keepalive
\* Lines 79-82: the ticker fires and a ping is sent (peer.Send waits for the
\* write path); a failure to send is logged and the loop goes on.
KeepaliveTick(c) ==
    /\ ka[c] = "wait"
    /\ IF WriteFails(c, c)
       THEN UNCHANGED <<ka, writing, missed>>
       ELSE /\ WriteLockFree(c)
            /\ writing' = [writing EXCEPT ![c] = @ \cup {<<c, "ping">>}]
            /\ ka' = [ka EXCEPT ![c] = "write"]
            /\ missed' = [missed EXCEPT ![c] = IF @ < MaxMissed THEN @ + 1 ELSE @]
    /\ UNCHANGED <<pc, ctxDone, connOpen, wg, proc, peerVars, storeVars, histVars>>

\* The write of the ping ends; lines 83-84: the goroutine returns when the
\* context is done.
KeepaliveWritten(c) ==
    /\ ka[c] = "write"
    /\ writing' = [writing EXCEPT ![c] = @ \ {<<c, "ping">>}]
    /\ ka' = [ka EXCEPT ![c] = IF ctxDone[c] THEN "off" ELSE "wait"]
    /\ missed' = [missed EXCEPT ![c] = IF ctxDone[c] THEN 0 ELSE @]
    /\ UNCHANGED <<pc, ctxDone, connOpen, wg, proc, peerVars, storeVars, histVars>>

\* ---------------------------------------------------------- the teardown
\* A teardown that goes on to the bookkeeping with the transport open.
TeardownCloseLeavesOpen(c) ==
    /\ pc[c] = "closing"
    /\ pc' = [pc EXCEPT ![c] = "bookkeeping"]
    /\ UNCHANGED <<ctxDone, connOpen, wg, ka, missed, proc, writing,
                   peerVars, storeVars, histVars>>

\* Lines 63-64: the deferred function closes the transport.
TeardownClose(c) ==
    /\ pc[c] = "closing"
    /\ connOpen' = [connOpen EXCEPT ![c] = FALSE]
    /\ pc' = [pc EXCEPT ![c] = "bookkeeping"]
    /\ UNCHANGED <<ctxDone, wg, ka, missed, proc, writing,
                   peerVars, storeVars, histVars>>

\* Disconnected called under the context of the connection.
DisconnectCtxOfConnection(c) == ~ctxDone[c]

\* Line 68: the context of the Disconnected call is a fresh one.
DisconnectCtxLive(c) == TRUE

\* A teardown that takes the peer out of its lobby at once.
TeardownDisconnectedLeaves(c) ==
    /\ pc[c] = "bookkeeping"
    /\ IF ~closedPacketReceived[c]
       THEN Disconnected(DisconnectCtxLive(c), c)
       ELSE UNCHANGED <<discCalls, discCtx, timeouts>>
    /\ members' = Leave(members, peerID[c], peerLobby[c])
    /\ pc' = [pc EXCEPT ![c] = "wgdone"]
    /\ UNCHANGED <<ctxDone, connOpen, wg, ka, missed, proc, writing,
                   peerVars, nextID>>

\* A teardown that records the disconnect whatever the close flag says.
TeardownDisconnectedAlways(c) ==
    /\ pc[c] = "bookkeeping"
    /\ Disconnected(DisconnectCtxLive(c), c)
    /\ pc' = [pc EXCEPT ![c] = "wgdone"]
    /\ UNCHANGED <<ctxDone, connOpen, wg, ka, missed, proc, writing,
                   peerVars, members, nextID>>

\* Lines 66-71: disconnect bookkeeping, unless a graceful close was received.
TeardownDisconnected(c) ==
    /\ pc[c] = "bookkeeping"
    /\ IF ~closedPacketReceived[c]
       THEN Disconnected(DisconnectCtxLive(c), c)
       ELSE UNCHANGED <<discCalls, discCtx, timeouts>>
    /\ pc' = [pc EXCEPT ![c] = "wgdone"]
    /\ UNCHANGED <<ctxDone, connOpen, wg, ka, missed, proc, writing,
                   peerVars, members, nextID>>

\* Lines 54 and 35: the deferred wg.Done() and cancel(); the handler returns
\* and its Peer and counters are gone.
WgDone(c) ==
    /\ pc[c] = "wgdone"
    /\ wg' = wg - 1
    /\ Cancel(c)
    /\ pc' = [pc EXCEPT ![c] = "done"]
    /\ peerID' = [peerID EXCEPT ![c] = NoID]
    /\ peerLobby' = [peerLobby EXCEPT ![c] = NoLobby]
    /\ closedPacketReceived' = [closedPacketReceived EXCEPT ![c] = FALSE]
    /\ discCalls' = [discCalls EXCEPT ![c] = 0]
    /\ discCtx' = [discCtx EXCEPT ![c] = "none"]
    /\ UNCHANGED <<connOpen, proc, writing, storeVars>>

\* ------------------------------------------------------- notifications
\* The broadcasts that go with a change of a lobby's member set: peer-left
\* to the members that remain, peer-joined to the members that were there.
PeerLeft(i) ==
    \E l \in Codes : i \in members[l] /\ i \notin members'[l] /\ members'[l] # {}

PeerJoined(i) ==
    \E l \in Codes : i \notin members[l] /\ i \in members'[l] /\ members[l] # {}

\* ------------------------------------------------------ specifications
Next ==
    \/ \E c \in Conns : Request(c)
    \/ \E c \in Conns : LifetimeExpire(c)
    \/ \E c \in Conns : Start(c)
    \/ \E c \in Conns : LoopExit(c)
    \/ \E c \in Conns : ReadTimeout(c)
    \/ \E c \in Conns : ReadError(c)
    \/ \E c \in Conns : ReadFrame(c)
    \/ \E c \in Conns : TaskLock(c)
    \/ \E c \in Conns : TaskFail(c)
    \/ \E c \in Conns : TaskWritten(c)
    \/ \E c \in Conns : EventHandOff(c)
    \/ \E c \in Conns : KeepaliveTick(c)
    \/ \E c \in Conns : KeepaliveWritten(c)
    \/ \E c \in Conns : TeardownClose(c)
    \/ \E c \in Conns : TeardownDisconnected(c)
    \/ \E c \in Conns : WgDone(c)
    \/ \E i \in RecordIDs : GraceElapse(i)
    \/ \E i \in RecordIDs : Sweep(i)

Spec == Init /\ [][Next]_vars

\* A step of the handler goroutine of c past the upgrade, reads excepted.
HandlerStep(c) ==
    \/ Start(c)
    \/ LoopExit(c)
    \/ TaskLock(c)
    \/ TaskFail(c)
    \/ TaskWritten(c)
    \/ EventHandOff(c)
    \/ TeardownClose(c)
    \/ TeardownDisconnected(c)
    \/ WgDone(c)

\* Every goroutine that can take a step eventually takes one, and the
\* lifetime timer of a connection eventually fires.  Nothing is assumed of
\* clients, of the network or of the keepalive ticker.
Fairness ==
    \A c \in Conns :
        /\ WF_vars(LifetimeExpire(c))
        /\ WF_vars(HandlerStep(c))
        /\ WF_vars(KeepaliveWritten(c))

FairSpec == Spec /\ Fairness

\* ------------------------------------------------------------ properties
\* The handler of c is between wg.Add(1) and wg.Done().
Running(c) == pc[c] \in {"loop", "closing", "bookkeeping", "wgdone"}

GraceWindowDecidesIdentity ==
    \A c \in Conns : \A t \in proc[c] :
        (t.kind = "welcome" /\ t.claimed # NoID) =>
            /\ t.met = "pending" =>
                  /\ peerID[c] = t.claimed
                  /\ peerLobby[c] # NoLobby => t.claimed \in members[peerLobby[c]]
            /\ t.met # "pending" =>
                  /\ peerID[c] # t.claimed
                  /\ peerLobby[c] = NoLobby

\* The claim met a record whose grace window had elapsed, and the prior ID
\* was restored.
GraceWindowDecidesIdentityWitness ==
    \E c \in Conns : \E t \in proc[c] :
        /\ t.kind = "welcome"
        /\ t.met = "expired"
        /\ peerID[c] = t.claimed

\* C3: every path out of the read loop enters the teardown, and when the
\* handler returns the teardown has closed the transport and has called
\* Disconnected once, under a live context, unless a graceful close was
\* received, in which case it has not called it.
TeardownAlwaysRuns ==
    [][\A c \in Conns :
          /\ (pc[c] = "loop" /\ pc'[c] # "loop") => pc'[c] = "closing"
          /\ (pc[c] # "done" /\ pc'[c] = "done") =>
                /\ pc[c] = "wgdone"
                /\ ~connOpen[c]
                /\ discCalls[c] = IF closedPacketReceived[c] THEN 0 ELSE 1
                /\ discCalls[c] = 1 => discCtx[c] = "live"]_vars

\* The lifetime of the connection ran out, and the bookkeeping was done all
\* the same.
TeardownAlwaysRunsWitness ==
    \E c \in Conns :
        /\ pc[c] = "wgdone"
        /\ ctxDone[c]
        /\ discCalls[c] = 1
        /\ discCtx[c] = "live"
        /\ timeouts[peerID[c]].present

\* C4: when the WaitGroup counter is zero, no accepted connection is in its
\* read loop or in its teardown.
WaitGroupCoversTeardown ==
    /\ wg = Cardinality({c \in Conns : Running(c)})
    /\ wg = 0 => \A c \in Conns : ~Running(c) /\ proc[c] = {}

\* Every connection was accepted and has finished; the counter is back at zero.
WaitGroupCoversTeardownWitness ==
    /\ wg = 0
    /\ \A c \in Conns : pc[c] = "done"

\* C5: no connection stays open for ever: an open connection is eventually
\* closed and its handler returns, whatever the client does.
LifetimeCeiling ==
    \A c \in Conns : connOpen[c] ~> (~connOpen[c] /\ pc[c] = "done")

\* The lifetime ran out on an identified peer whose connection is open and
\* whose handler is busy with a frame.
LifetimeCeilingWitness ==
    \E c \in Conns :
        /\ ctxDone[c]
        /\ connOpen[c]
        /\ pc[c] = "loop"
        /\ peerID[c] # NoID
        /\ proc[c] # {}

KeepaliveNeverCloses ==
    [][\A c \in Conns :
          ((pc[c] = "loop" /\ HandlePong(c)) \/ KeepaliveTick(c) \/ KeepaliveWritten(c)) =>
              /\ connOpen'[c] = connOpen[c]
              /\ pc'[c] = pc[c]]_vars

\* A pong was read while a ping was being written, and the connection is
\* open.
KeepaliveNeverClosesWitness ==
    \E c \in Conns :
        /\ connOpen[c]
        /\ pc[c] = "loop"
        /\ ka[c] = "write"
        /\ missed[c] = 0

\* C8: a connection has at most one frame being handled.
SequentialDispatch ==
    \A c \in Conns : Cardinality(proc[c]) <= 1

\* The handling of a frame is waiting for the write path of a transport.
SequentialDispatchWitness ==
    \E c \in Conns : \E t \in proc[c] :
        /\ t.stage = "lock"
        /\ ~ctxDone[c]
        /\ connOpen[c]

DroppedAfterClose ==
    [][\A c \in Conns :
          (closedPacketReceived[c] /\ pc[c] = "loop") =>
              /\ proc'[c] = {}
              /\ peerID'[c] = peerID[c]
              /\ peerLobby'[c] = peerLobby[c]
              /\ closedPacketReceived'[c]
              /\ \A d \in Conns : \A w \in writing'[d] :
                    (w[1] = c /\ w[2] # "ping") => w \in writing[d]
              /\ connOpen'[c] # connOpen[c] => pc'[c] = "closing"]_vars

\* The close was received; the connection is open and its loop reads on.
DroppedAfterCloseWitness ==
    \E c \in Conns :
        /\ closedPacketReceived[c]
        /\ pc[c] = "loop"
        /\ connOpen[c]
        /\ ~ctxDone[c]

\* C11: a relay to an ID that is unknown or outside the sender's lobby puts
\* a not-found error on the sender's own transport and nothing else: the
\* Store and the Peers are left alone, no other transport is written to, the
\* connection stays open and its loop goes on, also when the error has been
\* written or could not be.
RelayNotFoundIsLocal ==
    [][\A c \in Conns :
          /\ ( /\ pc[c] = "loop"
               /\ proc[c] = {}
               /\ \E i \in IDs : RelayTargets(c, i) = {} /\ HandleRelay(c, i) ) =>
                 /\ \E t \in proc'[c] : t.met = "notfound" /\ t.to = c
                 /\ storeVars' = storeVars
                 /\ connOpen' = connOpen
                 /\ pc'[c] = "loop"
                 /\ \A d \in Conns \ {c} : writing'[d] = writing[d]
          /\ (\E t \in proc[c] : t.met = "notfound") =>
                 /\ pc'[c] = pc[c]
                 /\ connOpen'[c] = connOpen[c]]_vars

\* A peer in a lobby is being sent the not-found error while another
\* identified peer is connected.
RelayNotFoundIsLocalWitness ==
    \E c, d \in Conns :
        /\ c # d
        /\ \E t \in proc[c] : t.met = "notfound" /\ t.stage = "write"
        /\ connOpen[c]
        /\ peerLobby[c] # NoLobby
        /\ connOpen[d]
        /\ peerID[d] # NoID

CredentialsFailureKeepsConnection ==
    [][\A c \in Conns :
          /\ (pc[c] = "loop" /\ proc[c] = {} /\ HandleCredentials(c)) =>
                 /\ pc'[c] = "loop"
                 /\ connOpen' = connOpen
                 /\ Cardinality(proc'[c]) = 1
                 /\ \A t \in proc'[c] : t.kind \in {"credentials", "error"} /\ t.to = c
          /\ (\E t \in proc[c] : t.kind = "error") =>
                 /\ pc'[c] = pc[c]
                 /\ connOpen'[c] = connOpen[c]
          /\ \A t \in proc[c] : t.kind = "credentials" =>
                 proc'[c] \subseteq {t, [t EXCEPT !.stage = "write"]}]_vars

\* A peer that has not identified itself is being sent an error: its
\* credentials request failed.
CredentialsFailureKeepsConnectionWitness ==
    \E c \in Conns :
        /\ peerID[c] = NoID
        /\ connOpen[c]
        /\ pc[c] = "loop"
        /\ \E t \in proc[c] : t.kind = "error" /\ t.stage = "write"

\* C14: the creation of a lobby by a peer that is in none succeeds and
\* yields a code that no live lobby has; the other lobbies are left as they
\* are, so lobbies that are live together have distinct codes.
LobbyCodesUnique ==
    [][\A c \in Conns :
          /\ ( /\ peerLobby[c] = NoLobby
               /\ peerLobby'[c] # NoLobby
               /\ peerID'[c] = peerID[c]
               /\ members'[peerLobby'[c]] = {peerID[c]} ) =>
                 /\ ~Live(peerLobby'[c])
                 /\ \A l \in Codes \ {peerLobby'[c]} : members'[l] = members[l]
          /\ ( /\ pc[c] = "loop"
               /\ proc[c] = {}
               /\ peerLobby[c] = NoLobby
               /\ HandleCreate(c) ) =>
                 /\ peerLobby'[c] \in FreeCodes
                 /\ \E t \in proc'[c] : t.kind = "reply"]_vars

\* Two lobbies are live, each with the connected peer that created it, and
\* their codes differ.
LobbyCodesUniqueWitness ==
    \E c, d \in Conns :
        /\ c # d
        /\ connOpen[c]
        /\ connOpen[d]
        /\ peerLobby[c] # NoLobby
        /\ peerLobby[d] # NoLobby
        /\ peerLobby[c] # peerLobby[d]
        /\ members[peerLobby[c]] = {peerID[c]}
        /\ members[peerLobby[d]] = {peerID[d]}

RejectedRequestDoesNothing ==
    [][\A c \in Conns :
          /\ (pc[c] = "idle" /\ pc'[c] = "rejected") =>
                 /\ wg' = wg
                 /\ ka' = ka
                 /\ proc' = proc
                 /\ writing' = writing
                 /\ peerVars' = peerVars
                 /\ storeVars' = storeVars
                 /\ histVars' = histVars
                 /\ ~connOpen'[c]
          /\ pc[c] = "rejected" =>
                 /\ pc'[c] = "rejected"
                 /\ ka'[c] = "off"
                 /\ proc'[c] = {}
                 /\ ~connOpen'[c]
                 /\ peerID'[c] = NoID
                 /\ discCalls'[c] = 0
                 /\ \A d \in Conns : \A w \in writing'[d] : w[1] # c
                 /\ wg' = Cardinality({d \in Conns : Running(d)'})]_vars

\* A request was rejected while the handler of an accepted connection is in
\* its read loop.
RejectedRequestDoesNothingWitness ==
    \E c, d \in Conns :
        /\ pc[c] = "rejected"
        /\ pc[d] = "loop"
        /\ connOpen[d]
        /\ wg = 1

TeardownInOrder ==
    [][\A c \in Conns :
          /\ discCalls'[c] > discCalls[c] =>
                 /\ ~connOpen[c]
                 /\ pc[c] = "bookkeeping"
          /\ \A i \in IDs :
                 (peerID[c] = i /\ ~timeouts[i].present /\ timeouts'[i].present) =>
                     ~connOpen[c]
          /\ (Running(c) /\ ~Running(c)') =>
                 /\ wg' = wg - 1
                 /\ ~connOpen[c]
                 /\ discCalls[c] = IF closedPacketReceived[c] THEN 0 ELSE 1
          /\ wg' < wg => \E d \in Conns : pc[d] = "wgdone" /\ pc'[d] = "done"]_vars

\* After a read error the transport is closed, Disconnected has returned and
\* the record of the peer is written, while the WaitGroup still counts the
\* handler.
TeardownInOrderWitness ==
    \E c \in Conns :
        /\ pc[c] = "wgdone"
        /\ ~ctxDone[c]
        /\ ~connOpen[c]
        /\ discCalls[c] = 1
        /\ peerID[c] # NoID
        /\ timeouts[peerID[c]].present
        /\ wg >= 1

\* C20: the teardown of a connection whose peer never identified itself
\* leaves no pending-disconnect record under the empty ID, and no identity
\* is ever restored from such a record.
NoRecordForEmptyID ==
    /\ ~timeouts[NoID].present
    /\ \A c \in Conns : \A t \in proc[c] :
          (t.kind = "welcome" /\ t.met # "none") => t.claimed # NoID

\* The handler of a peer that never identified itself has called
\* Disconnected, and a record is pending under the empty ID.
NoRecordForEmptyIDWitness ==
    \E c \in Conns :
        /\ pc[c] = "wgdone"
        /\ peerID[c] = NoID
        /\ peerLobby[c] = NoLobby
        /\ discCalls[c] = 1
        /\ discCtx[c] = "live"
        /\ timeouts[NoID].present

====
